---- MODULE Spec2Model ----
(***************************************************************************)
(* Model of app.py: the Pub/Sub push endpoint process_pubsub_push and the  *)
(* reconciliation pass process_new_mail, together with the three external  *)
(* collaborators the pass talks to (Datastore cursor entity, Gmail         *)
(* history/message API, GCS bucket).  Several requests are served          *)
(* concurrently by the WSGI workers; every call to a collaborator is one   *)
(* atomic step, the Python code between two calls belongs to the step of   *)
(* the call that precedes it.                                              *)
(*                                                                         *)
(* Spec serves any requests against a changing mailbox.  RedeliverSpec     *)
(* delivers one notification again and again until it is answered 204.     *)
(* SanitizeSpec and BlobNameSpec apply sanitize_filename and the blob name *)
(* of process_new_mail to bounded arguments.                               *)
(***************************************************************************)
EXTENDS Integers, Sequences, FiniteSets, TLC

\* ---------------------------------------------------------------- bounds
\* Highest historyId the mailbox reaches.
MaxHistoryId == 2
\* Number of push requests delivered in one behaviour.
MaxRequests == 3
\* Longest file name sanitize_filename is applied to, and longest file name
\* of the two parts whose blob names are compared.
MaxFilenameLen == 3
MaxBlobFilenameLen == 2

\* The worker threads that serve requests at the same time; a request goes
\* to the first free one.
Workers == {"w1", "w2"}
Before(u, w) == u = "w1" /\ w = "w2"

\* ------------------------------------------------------------- constants
\* Python's None where the other values are integers (cursors), and where
\* they are strings (ids, addresses).
None == -1
NoneStr == "None"
\* last_processed_history_id before get_last_history_id has returned.
Unread == -2
TARGET_USER_EMAIL == "target@example.com"
OTHER_EMAIL == "other@example.com"

\* The characters of [a-zA-Z0-9_.-] (letters in lower case only); " " stands
\* for every other character.
Letters ==
    {"a", "b", "c", "d", "e", "f", "g", "h", "i", "j", "k", "l", "m",
     "n", "o", "p", "q", "r", "s", "t", "u", "v", "w", "x", "y", "z"}
DigitChars == <<"0", "1", "2", "3", "4", "5", "6", "7", "8", "9">>
SafeChars == Letters \cup {DigitChars[d] : d \in 1..10} \cup {"_", ".", "-"}

\* --------------------------------------------------------- pure helpers
\* re.sub(r'[^a-zA-Z0-9_.-]', '_', filename)
ReplaceUnsafe(s) == [i \in 1..Len(s) |-> IF s[i] \in SafeChars THEN s[i] ELSE "_"]

\* re.sub(r'_+', '_', sani)
RECURSIVE CollapseUnderscores(_)
CollapseUnderscores(s) ==
    IF Len(s) <= 1 THEN s
    ELSE IF s[1] = "_" /\ s[2] = "_" THEN CollapseUnderscores(Tail(s))
         ELSE <<s[1]>> \o CollapseUnderscores(Tail(s))

StripChars == {"_", ".", "-"}

RECURSIVE LStrip(_)
LStrip(s) == IF s # <<>> /\ s[1] \in StripChars THEN LStrip(Tail(s)) ELSE s

RECURSIVE RStrip(_)
RStrip(s) ==
    IF s # <<>> /\ s[Len(s)] \in StripChars
    THEN RStrip(SubSeq(s, 1, Len(s) - 1)) ELSE s

StripLeft(s) == LStrip(s)

\* sani.strip('_.-')
Strip(s) == RStrip(LStrip(s))

unnamed_attachment ==
    <<"u", "n", "n", "a", "m", "e", "d", "_", "a", "t", "t", "a", "c", "h", "m", "e", "n", "t">>
attachment == <<"a", "t", "t", "a", "c", "h", "m", "e", "n", "t">>

sanitize_filename(filename) ==
    IF filename = <<>> THEN unnamed_attachment
    ELSE LET sani == Strip(CollapseUnderscores(ReplaceUnsafe(filename)))
         IN  IF sani # <<>> THEN sani ELSE attachment

\* ------------------------------------------------------------ the mailbox
MsgIds == {"m1", "m2", "m3"}

\* The top-level parts of each message (payload.parts). m1 carries a text
\* part without a file name and an attachment, m2 an inline part (a file
\* name but no attachmentId), m3 one attachment.
Parts(msg_id) ==
    CASE msg_id = "m1" ->
           << [filename |-> <<>>, attachmentId |-> NoneStr],
              [filename |-> <<"a", " ", "a">>, attachmentId |-> "att1"] >>
      [] msg_id = "m2" ->
           << [filename |-> <<"a">>, attachmentId |-> NoneStr] >>
      [] OTHER ->
           << [filename |-> <<"-">>, attachmentId |-> "att3"] >>

\* What one step of the mailbox history can hold: a history record with
\* its 'messagesAdded' and 'labelsAdded' lists, each entry a message id with
\* the message's labelIds, or no record at all (the historyId moved for a
\* change history.list does not report).
NoRecord == [messagesAdded |-> {}, labelsAdded |-> {}]
ChangeShapes ==
    { [messagesAdded |-> { [id |-> "m1", labelIds |-> {"INBOX"}],
                           [id |-> "m2", labelIds |-> {"INBOX", "UNREAD"}] },
       labelsAdded   |-> {}],
      [messagesAdded |-> { [id |-> "m3", labelIds |-> {"SPAM"}] },
       labelsAdded   |-> { [id |-> "m3", labelIds |-> {"INBOX"}] }],
      NoRecord }

\* ----------------------------------------------------------------- state
VARIABLES
    datastore_client,   \* TRUE when datastore.Client() was built, FALSE for None
    storage_client,     \* TRUE when storage.Client() was built, FALSE for None
    entity,             \* historyId of the Datastore entity, None when there is no entity
    mailboxHistoryId,   \* the mailbox's current historyId at the provider
    history,            \* the mailbox's change history: history[k] is the step to historyId k+1
    expired,            \* history.list answers 404 for every startHistoryId below this
    bucket,             \* names of the blobs in the GCS bucket
    delivered,          \* number of push requests delivered so far
    acked,              \* greatest historyId of a target notification answered 204, -1 if none
    pass,               \* per worker: the request it serves and its local variables
    given,              \* what a run is about: the arguments of a function, or the
                        \* notification Pub/Sub redelivers; <<>> when any request arrives
    names,              \* the values the function returned for them
    attempted           \* ids of the messages get_message has been called for, by any request

vars == << datastore_client, storage_client, entity, mailboxHistoryId, history,
           expired, bucket, delivered, acked, pass, given, names, attempted >>

environment == << datastore_client, storage_client, mailboxHistoryId, history, expired,
                  given, names >>

\* A worker that serves no request.
Idle ==
    [ pc |-> "idle", body |-> "none", emailAddress |-> NoneStr, history_id |-> None,
      last_processed_history_id |-> Unread, new_history_id |-> None,
      message_ids |-> {}, matched |-> {}, msg_id |-> NoneStr, i |-> 0, status |-> 0,
      \* what the pass has done so far
      error |-> "none", wrote |-> <<>>, calls |-> {}, skipped |-> {},
      interfered |-> FALSE, replay |-> FALSE ]

Init ==
    /\ datastore_client \in BOOLEAN
    /\ storage_client \in BOOLEAN
    /\ entity = None
    /\ mailboxHistoryId = 1
    /\ history = <<>>
    /\ expired = 0
    /\ bucket = {}
    /\ delivered = 0
    /\ acked = -1
    /\ pass = [w \in Workers |-> Idle]
    /\ given = <<>>
    /\ names = <<>>
    /\ attempted = {}

\* ------------------------------------------------------------ the provider
\* The mailbox changes: its historyId grows by one. A message is added once.
MailboxChange ==
    /\ mailboxHistoryId < MaxHistoryId
    /\ \E shape \in ChangeShapes :
         /\ \A k \in 1..Len(history) :
               { m.id : m \in history[k].messagesAdded }
                   \cap { m.id : m \in shape.messagesAdded } = {}
         /\ history' = Append(history, shape)
    /\ mailboxHistoryId' = mailboxHistoryId + 1
    /\ UNCHANGED << datastore_client, storage_client, entity, expired, bucket,
                    delivered, acked, pass, given, names, attempted >>

\* The history before the current historyId leaves the provider's retention
\* window.
ExpireHistory ==
    /\ expired < mailboxHistoryId
    /\ mailboxHistoryId > 1
    /\ expired' = mailboxHistoryId
    /\ UNCHANGED << datastore_client, storage_client, entity, mailboxHistoryId,
                    history, bucket, delivered, acked, pass, given, names,
                    attempted >>

\* The historyId of history[k].
RecordId(k) == k + 1

\* users().history().list(startHistoryId = start): the records after start.
HistoryRecords(start) ==
    { k \in 1..Len(history) : RecordId(k) > start /\ history[k] # NoRecord }

InboxMessageIdsAnyLabel(changes) ==
    { msg.id : msg \in UNION { history[k].messagesAdded : k \in changes } }

\* The message ids process_new_mail collects from the changes.
InboxMessageIds(changes) ==
    { msg.id : msg \in { m \in UNION { history[k].messagesAdded : k \in changes } :
                            "INBOX" \in m.labelIds } }

\* ------------------------------------------------------------ the endpoint
\* The bodies a push request can carry.
Bodies ==
    { [kind |-> k, emailAddress |-> NoneStr, historyId |-> None] :
        k \in {"noEnvelope", "noMessage", "noData", "badBase64", "badJSON", "notObject"} }
    \cup
    { [kind |-> "notification", emailAddress |-> TARGET_USER_EMAIL, historyId |-> h] :
        h \in (0..mailboxHistoryId) \cup {None} }
    \cup
    { [kind |-> "notification", emailAddress |-> OTHER_EMAIL,
       historyId |-> mailboxHistoryId],
      [kind |-> "notification", emailAddress |-> NoneStr, historyId |-> None] }

\* The request is answered with this status.
Answer(w, status, error) ==
    [pass[w] EXCEPT !.pc = "done", !.status = status, !.error = error]

FalsyZeroOnly(x) == x = 0

\* `not x` of Python for a cursor value
Falsy(x) == x = None \/ x = 0

\* The greatest acknowledged cursor after worker w's request is answered.
AckedAfter(w, status) ==
    IF /\ status = 204
       /\ pass[w].emailAddress = TARGET_USER_EMAIL
       /\ pass[w].history_id # None
       /\ pass[w].history_id > acked
    THEN pass[w].history_id ELSE acked

ExceptionStatusSwallowed(exception) ==
    IF exception = "JSONDecodeError" THEN 400 ELSE 204

\* The status an exception that leaves the try block of process_pubsub_push
\* is answered with: json.JSONDecodeError -> 400, every other one -> 500.
ExceptionStatus(exception) ==
    IF exception = "JSONDecodeError" THEN 400 ELSE 500

\* What decoding the body raises or yields (lines 252-268).
Decode(body) ==
    CASE body.kind = "badBase64" -> "binascii.Error"     \* base64.b64decode
      [] body.kind = "badJSON"   -> "JSONDecodeError"    \* json.loads
      [] body.kind = "notObject" -> "AttributeError"     \* notification.get
      [] OTHER                   -> "ok"

NeverForeign(email_address) == FALSE

\* `email_address != TARGET_USER_EMAIL` (line 273)
Foreign(email_address) == email_address # TARGET_USER_EMAIL

\* Worker w's request after process_pubsub_push has run on body up to the
\* call of process_new_mail; service is the outcome of get_gmail_service
\* (FALSE for None).
Receive(w, body, service) ==
    LET req == [pass[w] EXCEPT !.body = body.kind,
                               !.emailAddress = body.emailAddress,
                               !.history_id = body.historyId,
                               !.replay = /\ body.emailAddress = TARGET_USER_EMAIL
                                          /\ body.historyId # None
                                          /\ body.historyId <= acked]
        answer(status, error) ==
            [req EXCEPT !.pc = "done", !.status = status, !.error = error]
    IN  IF ~datastore_client \/ ~storage_client
            THEN answer(500, "clients")
        ELSE IF body.kind \in {"noEnvelope", "noMessage", "noData"}
            THEN answer(400, "malformed")
        ELSE IF Decode(body) # "ok"
            THEN answer(ExceptionStatus(Decode(body)), Decode(body))
        ELSE IF Foreign(body.emailAddress)
            THEN answer(204, "none")
        ELSE IF ~service
            THEN answer(500, "service")
        ELSE [req EXCEPT !.pc = "get_last_history_id"]

\* A push request arrives and process_pubsub_push runs up to the call of
\* process_new_mail.
process_pubsub_push(w) ==
    /\ pass[w].pc = "idle"
    /\ \A u \in Workers : Before(u, w) => pass[u].pc # "idle"
    /\ delivered < MaxRequests
    /\ delivered' = delivered + 1
    /\ \E body \in Bodies, service \in BOOLEAN :
         pass' = [pass EXCEPT ![w] = Receive(w, body, service)]
    /\ UNCHANGED << environment, attempted, entity, bucket, acked >>

\* ----------------------------------------------------------- the pass
\* The other workers' passes after worker w has put value v: a request that
\* has read the cursor sees the entity change under it.
Others(w, v) ==
    [u \in Workers |->
        IF /\ u # w
           /\ v # entity
           /\ pass[u].last_processed_history_id # Unread
        THEN [pass[u] EXCEPT !.interfered = TRUE]
        ELSE pass[u]]

AlreadyProcessedStrict(current_history_id, start_history_id) ==
    current_history_id < start_history_id

\* `current_history_id <= start_history_id` (line 181)
AlreadyProcessed(current_history_id, start_history_id) ==
    current_history_id <= start_history_id

\* get_last_history_id and the branches of lines 172-183 that follow it.
get_last_history_id(w) ==
    /\ pass[w].pc = "get_last_history_id"
    /\ \E ok \in BOOLEAN :
         pass' = [pass EXCEPT ![w] =
             IF ~ok THEN Answer(w, ExceptionStatus("DatastoreError"), "read")
             ELSE LET p == [pass[w] EXCEPT !.last_processed_history_id = entity]
                  IN  IF Falsy(entity)
                          THEN [p EXCEPT !.pc = "first_run"]
                      ELSE IF p.history_id = None
                          THEN [p EXCEPT !.pc = "done",
                                         !.status = ExceptionStatus("TypeError"),
                                         !.error = "TypeError"]
                      ELSE IF AlreadyProcessed(p.history_id, entity)
                          THEN [p EXCEPT !.pc = "done", !.status = 204]
                      ELSE [p EXCEPT !.pc = "history_list"]]
    /\ acked' = IF pass'[w].pc = "done" THEN AckedAfter(w, pass'[w].status) ELSE acked
    /\ UNCHANGED << environment, attempted, entity, bucket, delivered >>

\* save_last_history_id(history_id) called by worker w, which then returns
\* from process_new_mail: int(history_id) raises for None before the put,
\* the put itself can fail.
save_last_history_id(w, history_id) ==
    \E ok \in BOOLEAN :
        IF history_id = None
        THEN /\ pass' = [pass EXCEPT ![w] =
                          Answer(w, ExceptionStatus("TypeError"), "TypeError")]
             /\ UNCHANGED << entity, acked >>
        ELSE IF ~ok
        THEN /\ pass' = [pass EXCEPT ![w] =
                          Answer(w, ExceptionStatus("DatastoreError"), "write")]
             /\ UNCHANGED << entity, acked >>
        ELSE /\ entity' = history_id
             /\ pass' = [Others(w, history_id) EXCEPT ![w] =
                          [pass[w] EXCEPT !.pc = "done", !.status = 204,
                                          !.wrote = Append(@, history_id)]]
             /\ acked' = AckedAfter(w, 204)

\* Lines 172-176: no cursor stored yet, store the notification's.
FirstRun(w) ==
    /\ pass[w].pc = "first_run"
    /\ save_last_history_id(w, pass[w].history_id)
    /\ UNCHANGED << environment, attempted, bucket, delivered >>

SaveAfterFirstMessage(p) ==
    [p EXCEPT !.msg_id = NoneStr, !.i = 0, !.pc = "save"]

\* Where the pass goes once message msg_id is done with (or skipped).
NextMessage(p) ==
    [p EXCEPT !.msg_id = NoneStr, !.i = 0,
              !.pc = IF p.message_ids = {} THEN "save" ELSE "get_message"]

\* Lines 187-216: history.list from the stored cursor, then the collection
\* of the INBOX message ids. A start below the retention window is answered
\* with an HttpError 404 like any other failure of the call.
history_list(w) ==
    /\ pass[w].pc = "history_list"
    /\ \E outcome \in {"ok", "HttpError", "Exception"} :
         LET start_history_id == pass[w].last_processed_history_id
             p == [pass[w] EXCEPT !.calls = @ \cup {"history"}]
             changes == HistoryRecords(start_history_id)
             message_ids == InboxMessageIds(changes)
         IN  pass' = [pass EXCEPT ![w] =
                 IF outcome # "ok"
                     THEN [p EXCEPT !.pc = "done", !.status = ExceptionStatus(outcome),
                                    !.error = "history"]
                 ELSE IF start_history_id < expired
                     THEN [p EXCEPT !.pc = "done", !.status = ExceptionStatus("HttpError"),
                                    !.error = "expired"]
                 ELSE IF changes = {}
                     THEN IF mailboxHistoryId > start_history_id
                          THEN [p EXCEPT !.new_history_id = mailboxHistoryId,
                                         !.pc = "no_changes"]
                          ELSE [p EXCEPT !.new_history_id = mailboxHistoryId,
                                         !.pc = "done", !.status = 204]
                 ELSE NextMessage([p EXCEPT !.new_history_id = mailboxHistoryId,
                                            !.message_ids = message_ids,
                                            !.matched = message_ids])]
    /\ acked' = IF pass'[w].pc = "done" THEN AckedAfter(w, pass'[w].status) ELSE acked
    /\ UNCHANGED << environment, attempted, entity, bucket, delivered >>

\* Lines 199-203: no change in the range, the cursor moves to the new historyId.
NoChanges(w) ==
    /\ pass[w].pc = "no_changes"
    /\ save_last_history_id(w, pass[w].new_history_id)
    /\ UNCHANGED << environment, attempted, bucket, delivered >>

\* Lines 224-231: the loop over the parts goes on to the next part that has
\* a file name and an attachmentId (the others make no call), or leaves the
\* message when there is none.
RECURSIVE SkipParts(_)
SkipParts(p) ==
    IF p.i >= Len(Parts(p.msg_id)) THEN NextMessage(p)
    ELSE LET part == Parts(p.msg_id)[p.i + 1]
         IN  IF part.filename = <<>> \/ part.attachmentId = NoneStr
             THEN SkipParts([p EXCEPT !.i = @ + 1])
             ELSE p

\* Lines 217-223: get_message of one of the collected ids. get_message
\* returns None on an HttpError; any other exception leaves process_new_mail.
get_message(w) ==
    /\ pass[w].pc = "get_message"
    /\ \E msg_id \in pass[w].message_ids, outcome \in {"ok", "HttpError", "Exception"} :
         LET p == [pass[w] EXCEPT !.message_ids = @ \ {msg_id},
                                  !.calls = @ \cup {"message"}]
         IN  /\ pass' = [pass EXCEPT ![w] =
                 CASE outcome = "Exception" ->
                        [p EXCEPT !.pc = "done", !.status = ExceptionStatus(outcome),
                                  !.error = "message"]
                   [] outcome = "HttpError" ->
                        NextMessage([p EXCEPT !.skipped = @ \cup {"message"}])
                   [] OTHER ->
                        SkipParts([p EXCEPT !.msg_id = msg_id, !.i = 0, !.pc = "part"])]
             /\ attempted' = attempted \cup {msg_id}
    /\ acked' = IF pass'[w].pc = "done" THEN AckedAfter(w, pass'[w].status) ELSE acked
    /\ UNCHANGED << environment, entity, bucket, delivered >>

\* str(i) of a non-negative integer
RECURSIVE str(_)
str(i) ==
    IF i < 10 THEN << DigitChars[i + 1] >>
    ELSE str(i \div 10) \o << DigitChars[(i % 10) + 1] >>

BlobNameWithoutIndex(msg_id, i, filename) ==
    <<msg_id, "/">> \o sanitize_filename(filename)

BlobNamePerDelivery(msg_id, i, filename) ==
    <<msg_id, "/">> \o str(i) \o <<"_">> \o str(delivered) \o <<"_">>
        \o sanitize_filename(filename)

\* f"{msg_id}/{i}_{sane_filename}"; i is the 0-based index of enumerate(parts).
\* A message id is one token (Gmail ids are hexadecimal, without "/").
destination_blob_name(msg_id, i, filename) ==
    <<msg_id, "/">> \o str(i) \o <<"_">> \o sanitize_filename(filename)

\* The pass after part i of the current message.
NextPart(p) == SkipParts([p EXCEPT !.i = @ + 1])

UploadFailureRaised(p) ==
    [p EXCEPT !.calls = @ \cup {"upload"}, !.skipped = @ \cup {"upload"},
              !.pc = "done", !.status = 500, !.error = "upload"]

\* upload_to_gcs has returned False (lines 144-146); line 237 ignores the
\* result and the loop goes on.
UploadFailed(p) ==
    NextPart([p EXCEPT !.calls = @ \cup {"upload"}, !.skipped = @ \cup {"upload"}])

\* Lines 224-239: one part of the current message. get_attachment returns
\* None on an HttpError or on empty data, any other exception is caught at
\* line 238; upload_to_gcs returns False on every failure.
process_part(w) ==
    /\ pass[w].pc = "part"
    /\ LET msg_id == pass[w].msg_id
           i == pass[w].i
           part == Parts(msg_id)[i + 1]
       IN  \E attachment_data \in {"data", "None", "Exception"}, uploaded \in BOOLEAN :
                  LET p == [pass[w] EXCEPT !.calls = @ \cup {"attachment"}]
                      name == destination_blob_name(msg_id, i, part.filename)
                  IN  IF attachment_data # "data"
                      THEN /\ pass' = [pass EXCEPT ![w] =
                                  NextPart([p EXCEPT !.skipped = @ \cup {"attachment"}])]
                           /\ bucket' = bucket
                      ELSE IF ~uploaded
                      THEN /\ pass' = [pass EXCEPT ![w] = UploadFailed(p)]
                           /\ bucket' = bucket
                      ELSE /\ pass' = [pass EXCEPT ![w] =
                                  NextPart([p EXCEPT !.calls = @ \cup {"upload"}])]
                           /\ bucket' = bucket \cup {name}
    /\ UNCHANGED << environment, attempted, entity, delivered, acked >>

\* Lines 241-242: the cursor moves to the new historyId.
Finished(w) ==
    /\ pass[w].pc = "save"
    /\ save_last_history_id(w, pass[w].new_history_id)
    /\ UNCHANGED << environment, attempted, bucket, delivered >>

\* The response is sent, the worker is free for the next request.
Respond(w) ==
    /\ pass[w].pc = "done"
    /\ pass' = [pass EXCEPT ![w] = Idle]
    /\ UNCHANGED << environment, attempted, entity, bucket, delivered, acked >>

Next ==
    \/ MailboxChange
    \/ ExpireHistory
    \/ \E w \in Workers :
         \/ process_pubsub_push(w)
         \/ get_last_history_id(w)
         \/ FirstRun(w)
         \/ history_list(w)
         \/ NoChanges(w)
         \/ get_message(w)
         \/ process_part(w)
         \/ Finished(w)
         \/ Respond(w)

Spec == Init /\ [][Next]_vars

\* --------------------------------------------------------- redelivery
\* One notification, delivered to one worker again and again until it is
\* answered 204, against a mailbox that no longer changes. The calls of the
\* Datastore and Gmail clients may fail, but only finitely often.
StoredCursors == {None, 1}
RedeliverInit ==
    /\ datastore_client = TRUE
    /\ storage_client = TRUE
    /\ entity \in StoredCursors
    /\ mailboxHistoryId = 2
    /\ history \in { <<shape>> : shape \in ChangeShapes }
    /\ expired \in {0, mailboxHistoryId}
    /\ bucket = {}
    /\ delivered = 0
    /\ acked = -1
    /\ pass = [w \in Workers |-> Idle]
    /\ given \in { << [kind |-> "notification", emailAddress |-> TARGET_USER_EMAIL,
                      historyId |-> h] >> : h \in {None, 1, 2} }
    /\ names = <<>>
    /\ attempted = {}

\* Pub/Sub delivers the notification that has not been answered 204 yet.
Redeliver(w) ==
    /\ pass[w].pc = "idle"
    /\ acked = -1
    /\ \E service \in BOOLEAN :
         pass' = [pass EXCEPT ![w] = Receive(w, given[1], service)]
    /\ UNCHANGED << environment, attempted, entity, bucket, delivered, acked >>

RedeliverNext ==
    \/ Redeliver("w1")
    \/ get_last_history_id("w1")
    \/ FirstRun("w1")
    \/ history_list("w1")
    \/ NoChanges("w1")
    \/ get_message("w1")
    \/ process_part("w1")
    \/ Finished("w1")
    \/ Respond("w1")

\* The failures of a call that a later attempt may not meet again.
TransientErrors == {"service", "read", "write", "history", "message"}
NoTransientFailure == pass'["w1"].error \notin TransientErrors

RedeliverSpec ==
    /\ RedeliverInit
    /\ [][RedeliverNext]_vars
    /\ WF_vars(RedeliverNext)
    /\ <>[][NoTransientFailure]_vars

\* ------------------------------------------------- the functions alone
\* sanitize_filename and the blob name of line 236 applied to bounded
\* arguments, with no request being served.
FilenameChars == {"a", "1", "_", ".", "-", " "}
Filenames(n) == UNION { [1..k -> FilenameChars] : k \in 0..n }

NoRequest ==
    /\ datastore_client = TRUE
    /\ storage_client = TRUE
    /\ entity = None
    /\ mailboxHistoryId = 1
    /\ history = <<>>
    /\ expired = 0
    /\ bucket = {}
    /\ delivered = 0
    /\ acked = -1
    /\ pass = [w \in Workers |-> Idle]
    /\ attempted = {}

\* Every file name (the filename of a part, <<>> for '' or none).
SanitizeInit ==
    /\ NoRequest
    /\ given \in { <<filename>> : filename \in Filenames(MaxFilenameLen) }
    /\ names = <<>>

Sanitize ==
    /\ names = <<>>
    /\ names' = << sanitize_filename(given[1]) >>
    /\ UNCHANGED << datastore_client, storage_client, entity, mailboxHistoryId,
                    history, expired, bucket, delivered, acked, pass, given,
                    attempted >>

SanitizeSpec == SanitizeInit /\ [][Sanitize]_vars

\* Two parts that reach line 236: a message id, the part's index and its
\* file name, which line 226 requires to be non-empty.
PartIndexes == {0, 1, 11}
UploadedParts ==
    [msg_id : {"m1", "m2"}, i : PartIndexes,
     filename : Filenames(MaxBlobFilenameLen) \ {<<>>}]

BlobNameInit ==
    /\ NoRequest
    /\ given \in UploadedParts \X UploadedParts
    /\ names = <<>>

BlobNames ==
    /\ names = <<>>
    /\ names' = [k \in 1..2 |->
                   destination_blob_name(given[k].msg_id, given[k].i, given[k].filename)]
    /\ UNCHANGED << datastore_client, storage_client, entity, mailboxHistoryId,
                    history, expired, bucket, delivered, acked, pass, given,
                    attempted >>

BlobNameSpec == BlobNameInit /\ [][BlobNames]_vars

\* ------------------------------------------------------------- the claims
\* Worker w's request has been answered.
Done(w) == pass[w].pc = "done"

\* Worker w's request has read the cursor and is not answered yet: it is
\* between get_last_history_id and its save_last_history_id.
Reconciling(w) ==
    /\ pass[w].last_processed_history_id # Unread
    /\ pass[w].pc \notin {"idle", "done"}

\* The greater of two cursors.
Greater(a, b) == IF a >= b THEN a ELSE b

\* C1: the cursor held in the store never decreases, and once stored it is
\* never removed, whatever the interleaving of the passes.
C1_CursorNeverDecreases ==
    [][entity # None => (entity' # None /\ entity' >= entity)]_vars

\* C2: two passes never overlap between their cursor read and their cursor
\* write, and when two passes that have both written are answered the store
\* holds the greatest value either of them wrote.
C2_PassesSerialized ==
    \A u, w \in Workers : u # w =>
        /\ ~(Reconciling(u) /\ Reconciling(w))
        /\ (Done(u) /\ Done(w) /\ pass[u].wrote # <<>> /\ pass[w].wrote # <<>>)
              => entity = Greater(pass[u].wrote[1], pass[w].wrote[1])

\* C3: a notification for the target mailbox whose cursor is not above the
\* cursor of a notification already answered 204 makes no upload and leaves
\* the stored cursor as its pass read it.
C3_ReplayChangesNothing ==
    \A w \in Workers : pass[w].replay =>
        /\ "upload" \notin pass[w].calls
        /\ \A k \in 1..Len(pass[w].wrote) :
              pass[w].wrote[k] = pass[w].last_processed_history_id

\* C4: a pass whose history fetch reports an expired start point writes the
\* provider's current historyId, fetches no message and is not answered 500.
C4_ExpiredStartRebaselines ==
    \A w \in Workers : (Done(w) /\ pass[w].error = "expired") =>
        /\ pass[w].status # 500
        /\ pass[w].wrote = << mailboxHistoryId >>
        /\ "message" \notin pass[w].calls

\* A message detail fetch or an attachment fetch failed in worker w's pass.
FetchFailed(w) ==
    \/ pass[w].error = "message"
    \/ "message" \in pass[w].skipped
    \/ "attachment" \in pass[w].skipped

\* C5: a pass in which the fetch of a message or of an attachment failed, in
\* any way, still fetches every other matched message, is answered 204 and
\* writes the new historyId of the delta (the Datastore put succeeding).
C5_FetchFailureSkipped ==
    \A w \in Workers : (Done(w) /\ FetchFailed(w) /\ pass[w].error # "write") =>
        /\ pass[w].status = 204
        /\ pass[w].message_ids = {}
        /\ pass[w].wrote = << pass[w].new_history_id >>

\* The fatal conditions of a pass: no Gmail service, the cursor read or
\* write failed, the history fetch failed (an expired start included), and
\* the exceptions that leave process_new_mail.
FatalErrors ==
    {"clients", "service", "read", "write", "history", "expired", "message", "TypeError"}

\* C6: a request that ends in a fatal condition is answered 500 and has
\* written no cursor; unless another pass wrote in between, the store holds
\* the cursor the pass read.
C6_NoPartialCommit ==
    \A w \in Workers : (Done(w) /\ pass[w].error \in FatalErrors) =>
        /\ pass[w].status = 500
        /\ pass[w].wrote = <<>>
        /\ (pass[w].last_processed_history_id # Unread /\ ~pass[w].interfered)
              => entity = pass[w].last_processed_history_id

\* A pass that read a cursor, found the history fetch failing and was
\* answered 500 with the store still holding the cursor it read.
C6_Witness ==
    \E w \in Workers :
        /\ Done(w) /\ pass[w].error = "history" /\ pass[w].status = 500
        /\ pass[w].last_processed_history_id = 1 /\ entity = 1
        /\ pass[w].history_id = 2

\* C7 as stated: a pass in which an upload failed does not write the cursor
\* and is answered 500.
C7_UploadFailureFatal ==
    \A w \in Workers : (Done(w) /\ "upload" \in pass[w].skipped) =>
        /\ pass[w].status = 500
        /\ pass[w].wrote = <<>>

\* C7 amended: a failed upload is skipped and not fatal. A pass in which an
\* upload failed is answered 204 and writes the new historyId of the delta,
\* unless a later get_message raises or the Datastore put fails.
C7_UploadFailureSkipped ==
    \A w \in Workers :
        (Done(w) /\ "upload" \in pass[w].skipped /\ pass[w].error \notin {"message", "write"}) =>
            /\ pass[w].status = 204
            /\ pass[w].wrote = << pass[w].new_history_id >>

\* A pass whose upload failed, answered 204 with the cursor moved.
C7_Witness ==
    \E w \in Workers :
        /\ Done(w) /\ "upload" \in pass[w].skipped /\ pass[w].status = 204
        /\ pass[w].wrote = << 2 >> /\ entity = 2 /\ bucket = {}

\* The bodies that do not decode to an object with emailAddress and historyId.
Malformed(w) ==
    \/ pass[w].body \in {"noEnvelope", "noMessage", "noData", "badBase64", "badJSON", "notObject"}
    \/ pass[w].body = "notification"
         /\ (pass[w].emailAddress = NoneStr \/ pass[w].history_id = None)

\* C8: with both clients built, a malformed push body is answered 400, and
\* causes no cursor write, no history fetch and no upload.
C8_MalformedRejected ==
    \A w \in Workers : (Done(w) /\ Malformed(w) /\ datastore_client /\ storage_client) =>
        /\ pass[w].status = 400
        /\ pass[w].wrote = <<>>
        /\ pass[w].calls = {}

\* C9: a pass that finds no cursor in the store and carries cursor n stores
\* exactly n (the Datastore put succeeding), calls neither the history, the
\* message, the attachment API nor the upload, and is answered 204; unless
\* another pass wrote in between, the store then holds n.
C9_BaselineOnEmpty ==
    \A w \in Workers :
        (/\ Done(w)
         /\ pass[w].last_processed_history_id = None
         /\ pass[w].history_id # None
         /\ pass[w].error # "write") =>
            /\ pass[w].status = 204
            /\ pass[w].wrote = << pass[w].history_id >>
            /\ pass[w].calls = {}
            /\ ~pass[w].interfered => entity = pass[w].history_id

\* A first pass with cursor 2 that has stored 2.
C9_Witness ==
    \E w \in Workers :
        /\ Done(w) /\ pass[w].last_processed_history_id = None
        /\ pass[w].history_id = 2 /\ pass[w].status = 204 /\ entity = 2

ServiceCreated(w) ==
    \/ pass[w].error = "service"
    \/ pass[w].pc \notin {"idle", "done"}
    \/ pass[w].last_processed_history_id # Unread
    \/ pass[w].error = "read"

\* C11: with both clients built, a well-formed notification for another
\* address is answered 204 without get_gmail_service, cursor read or write,
\* history fetch, message fetch or upload.
C11_ForeignIgnored ==
    \A w \in Workers :
        (/\ pass[w].body = "notification"
         /\ pass[w].emailAddress = OTHER_EMAIL
         /\ datastore_client /\ storage_client) =>
            /\ Done(w)
            /\ pass[w].status = 204
            /\ ~ServiceCreated(w)
            /\ pass[w].wrote = <<>>
            /\ pass[w].calls = {}

\* A notification for another address answered 204 while the store holds a
\* cursor below the notification's and the bucket holds a blob.
C11_Witness ==
    \E w \in Workers :
        /\ Done(w) /\ pass[w].emailAddress = OTHER_EMAIL /\ pass[w].status = 204
        /\ pass[w].history_id = 2 /\ entity = 1

\* C12: a pass writes the cursor at most once, and the write is its last
\* step: every collected message has been taken up and none is in progress
\* when the cursor is written, and no call of the pass follows the write.
C12_SingleCommitLast ==
    \A w \in Workers :
        /\ Len(pass[w].wrote) <= 1
        /\ pass[w].wrote # <<>> =>
              /\ pass[w].pc = "done"
              /\ pass[w].message_ids = {}
              /\ pass[w].msg_id = NoneStr

\* A pass that collected two messages, uploaded an attachment and then wrote
\* the cursor.
C12_Witness ==
    \E w \in Workers :
        /\ Done(w) /\ pass[w].wrote = <<2>>
        /\ pass[w].matched = {"m1", "m2"}
        /\ "upload" \in pass[w].calls /\ pass[w].skipped = {}

\* C13: a pass whose history fetch succeeded ends with the stored cursor
\* set to the historyId of the answer, whatever happened to its messages
\* (a failing cursor write aside).
C13_CommitAfterFetch ==
    \A w \in Workers :
        (/\ Done(w)
         /\ pass[w].new_history_id # None
         /\ pass[w].error # "write") =>
            pass[w].wrote = << pass[w].new_history_id >>

\* The history holds, after historyId start, a 'messagesAdded' entry for
\* message id whose labelIds contain INBOX.
AddedToInbox(id, start) ==
    \E k \in 1..Len(history) :
        /\ RecordId(k) > start
        /\ \E m \in history[k].messagesAdded : m.id = id /\ "INBOX" \in m.labelIds

\* C14: a pass collects and fetches a message only if the history after
\* the cursor it read has a 'messagesAdded' entry for it labelled INBOX, and
\* every blob in the bucket belongs to such a message.
C14_OnlyInboxAdded ==
    /\ \A w \in Workers :
          \A id \in pass[w].matched \cup ({pass[w].msg_id} \ {NoneStr}) :
              AddedToInbox(id, pass[w].last_processed_history_id)
    /\ \A name \in bucket : AddedToInbox(name[1], 0)

\* A pass has scanned a record that adds m3 under SPAM and then adds the
\* INBOX label to it, has fetched nothing and has written the cursor.
C14_Witness ==
    \E w \in Workers :
        /\ Done(w) /\ pass[w].wrote = <<2>>
        /\ pass[w].calls = {"history"}
        /\ \E m \in history[1].messagesAdded : m.id = "m3"

\* C15: two parts that differ in message id or in part index get different
\* blob names, whatever their file names.
C15_BlobNamesDistinct ==
    (/\ names # <<>>
     /\ Len(given) = 2
     /\ << given[1].msg_id, given[1].i >> # << given[2].msg_id, given[2].i >>) =>
        names[1] # names[2]

\* Parts 1 and 11 of one message whose file names differ and sanitize to
\* the same string, with their blob names computed.
C15_Witness ==
    /\ names # <<>> /\ Len(given) = 2
    /\ given[1].msg_id = given[2].msg_id
    /\ given[1].i = 1 /\ given[2].i = 11
    /\ given[1].filename = <<"1", " ">> /\ given[2].filename = <<"1", "_">>
    /\ names[1] = <<"m1", "/", "1", "_", "1">>
    /\ names[2] = <<"m1", "/", "1", "1", "_", "1">>

\* C16: sanitize_filename returns a non-empty name of characters of
\* [a-zA-Z0-9_.-] without "__" and without "_", "." or "-" at either end;
\* it returns unnamed_attachment for no file name and attachment for a
\* file name made only of characters that are replaced or stripped.
C16_SanitizedNames ==
    (names # <<>> /\ Len(given) = 1) =>
        LET filename == given[1]
            sane == names[1]
        IN  /\ sane # <<>>
            /\ \A k \in 1..Len(sane) : sane[k] \in SafeChars
            /\ \A k \in 1..(Len(sane) - 1) : ~(sane[k] = "_" /\ sane[k + 1] = "_")
            /\ sane[1] \notin {"_", ".", "-"}
            /\ sane[Len(sane)] \notin {"_", ".", "-"}
            /\ filename = <<>> =>
                  sane = <<"u", "n", "n", "a", "m", "e", "d", "_",
                           "a", "t", "t", "a", "c", "h", "m", "e", "n", "t">>
            /\ (/\ filename # <<>>
                /\ \A k \in 1..Len(filename) : filename[k] \in {" ", "_", ".", "-"}) =>
                  sane = <<"a", "t", "t", "a", "c", "h", "m", "e", "n", "t">>

\* A file name with two unsafe characters in a row and a leading dot,
\* sanitized.
C16_Witness ==
    /\ given = << <<".", " ", " ">> >> /\ names = << attachment >>

\* The ids of the messages the history adds to INBOX in records with a
\* historyId in (s, c].
InboxBetween(s, c) ==
    { id \in MsgIds :
        \E k \in 1..Len(history) :
            /\ RecordId(k) > s /\ RecordId(k) <= c
            /\ \E m \in history[k].messagesAdded : m.id = id /\ "INBOX" \in m.labelIds }

\* A pass that fetched the history from s writes cursor c having called
\* get_message for every message added to INBOX in (s, c].
ScanCovers(w) ==
    (/\ pass[w].wrote = <<>> /\ pass'[w].wrote # <<>>
     /\ "history" \in pass[w].calls) =>
        \A id \in InboxBetween(pass[w].last_processed_history_id, entity') :
            id \in pass[w].matched /\ id \notin pass[w].message_ids

\* C17: a scanning pass writes its cursor only after calling get_message for
\* every message added to INBOX between the cursor it read and the one it
\* writes, and the stored cursor, once there is one, never moves up past a
\* message added to INBOX that no pass has called get_message for.
C17_CursorCoversAttempted ==
    [][/\ \A w \in Workers : ScanCovers(w)
       /\ (entity # None /\ entity' > entity) =>
             InboxBetween(entity, entity') \subseteq attempted']_vars

\* The part a blob name belongs to: the name up to the "_" that ends the
\* part index.
PartOfName(name) ==
    SubSeq(name, 1, CHOOSE k \in 1..Len(name) :
                        name[k] = "_" /\ \A j \in 1..(k - 1) : name[j] # "_")

\* C18: the bucket never holds two blobs of one message part, and after a
\* pass that collected m1, met no failure and was answered 204 the bucket
\* holds exactly the blob of m1's attachment, whether or not earlier
\* requests uploaded it before being aborted.
C18_RerunOverwrites ==
    /\ \A n1, n2 \in bucket : PartOfName(n1) = PartOfName(n2) => n1 = n2
    /\ \A w \in Workers :
          (/\ Done(w) /\ pass[w].status = 204
           /\ "m1" \in pass[w].matched
           /\ pass[w].skipped = {}) =>
              bucket = { <<"m1", "/", "1", "_", "a", "_", "a">> }

\* A request aborted by a get_message exception after it had uploaded m1's
\* attachment, and a later request for the same notification that uploaded
\* it again and was answered 204.
C18_Witness ==
    \E u, w \in Workers :
        /\ Done(u) /\ pass[u].status = 500 /\ pass[u].error = "message"
        /\ "upload" \in pass[u].calls /\ pass[u].skipped = {}
        /\ Done(w) /\ pass[w].status = 204 /\ pass[w].history_id = pass[u].history_id
        /\ "upload" \in pass[w].calls /\ pass[w].skipped = {}
        /\ ~pass[w].interfered
        /\ bucket = { <<"m1", "/", "1", "_", "a", "_", "a">> }

\* C19: a pass writes a cursor without having fetched the history only
\* when the store it read held no cursor; a stored cursor, 0 included, is
\* followed by a history fetch whenever the notification's cursor is higher.
C19_BaselineOnlyOnAbsent ==
    \A w \in Workers :
        /\ (pass[w].wrote # <<>> /\ "history" \notin pass[w].calls) =>
              pass[w].last_processed_history_id = None
        /\ (/\ Done(w)
            /\ pass[w].last_processed_history_id \notin {Unread, None}
            /\ pass[w].history_id # None
            /\ pass[w].history_id > pass[w].last_processed_history_id) =>
              "history" \in pass[w].calls

\* C20: the redelivered notification is eventually answered 204 with the
\* stored cursor at or above the notification's.
C20_EventuallyAcked == <>(acked # -1 /\ entity >= acked)

====
